---- MODULE Spec2Model ----
(***************************************************************************)
(* Model of src/app.js: an Express application with three Mongoose models  *)
(* (Order, Cart, Checkout), a create and a read-by-id route for each, a    *)
(* health route, and a middleware chain in front of the routes.            *)
(*                                                                         *)
(* JSON values: a string is <<"str", text>>, a number is <<"num", text>>,  *)
(* an object is a function from keys to values, an array is a sequence.    *)
(***************************************************************************)
EXTENDS Integers, Sequences, FiniteSets, TLC

\* Bound on the number of requests the process accepts in one run.
MaxReq == 2

Str(s) == <<"str", s>>
Num(s) == <<"num", s>>
EmptyObj == [k \in {} |-> Str("")]

\* Texts that JavaScript's Number() converts to a number.
NumericText == {"2", "7", "40"}

Entities == {"Order", "Cart", "Checkout"}

(***************************************************************************)
(* SCHEMAS (src/app.js 56-122).  A type is <<"String">>, <<"Number">>,     *)
(* <<"Nested", fields>> or <<"Array", fields of the element>>.             *)
(***************************************************************************)
TString == <<"String">>
TNumber == <<"Number">>

addressFields ==
  [flat_no |-> TString, area |-> TString, city |-> TString,
   state |-> TString, pincode |-> TString]

vegetablesFields ==
  [brinjalQty |-> TNumber, tomatoQty |-> TNumber, carrotQty |-> TNumber,
   cucumberQty |-> TNumber, onionQty |-> TNumber, chilliQty |-> TNumber,
   spinachQuantity |-> TNumber, coriander |-> TNumber, Karvepaku |-> TNumber,
   pudina |-> TNumber]

itemFields == [name |-> TString, quantity |-> TNumber, totalCost |-> TNumber]

orderSchema ==
  [name |-> TString, email |-> TString, phone |-> TString,
   address |-> <<"Nested", addressFields>>,
   vegetables |-> <<"Nested", vegetablesFields>>,
   totalCost |-> TNumber]

cartSchema ==
  [items |-> <<"Array", itemFields>>, totalCartCost |-> TNumber]

checkoutSchema ==
  [customer |-> <<"Nested", [name |-> TString, email |-> TString,
                             phone |-> TString,
                             address |-> <<"Nested", addressFields>>]>>,
   cart |-> <<"Array", itemFields>>,
   cartTotal |-> TNumber]

SchemaOf(e) ==
  CASE e = "Order" -> orderSchema
    [] e = "Cart" -> cartSchema
    [] e = "Checkout" -> checkoutSchema

\* The fields each create handler destructures from req.body.
AllowList(e) ==
  CASE e = "Order" -> {"name", "email", "phone", "address", "vegetables", "totalCost"}
    [] e = "Cart" -> {"items", "totalCartCost"}
    [] e = "Checkout" -> {"customer", "cart", "cartTotal"}

\* Pick with the total left out of the destructuring.
PickWithoutTotal(e, body) ==
  [k \in ((DOMAIN body) \cap AllowList(e)) \ {"totalCost", "totalCartCost", "cartTotal"}
     |-> body[k]]

\* const { a, b, ... } = req.body; new Model({ a, b, ... }): fields that
\* are undefined are not set on the document.
Pick(e, body) == [k \in (DOMAIN body) \cap AllowList(e) |-> body[k]]

(***************************************************************************)
(* Document construction: Mongoose casts every value to its schema type,   *)
(* drops keys the schema does not declare (strict mode), removes nested    *)
(* objects that end up empty (minimize), gives every array path the        *)
(* default [] and every array element its own _id.                         *)
(***************************************************************************)
RECURSIVE Castable(_, _)
Castable(type, v) ==
  CASE type[1] = "String" -> TRUE
    [] type[1] = "Number" -> v[1] = "num" \/ v[2] \in NumericText
    [] type[1] = "Nested" ->
         \A k \in (DOMAIN v) \cap (DOMAIN type[2]) : Castable(type[2][k], v[k])
    [] type[1] = "Array" ->
         \A i \in 1..Len(v) : Castable(<<"Nested", type[2]>>, v[i])

RECURSIVE Cast(_, _, _)
Cast(type, v, base) ==
  CASE type[1] = "String" -> Str(v[2])
    [] type[1] = "Number" -> Num(v[2])
    [] type[1] = "Nested" ->
         LET sch == type[2]
             keep == {k \in (DOMAIN v) \cap (DOMAIN sch) :
                        sch[k][1] = "Nested" =>
                          DOMAIN Cast(sch[k], v[k], base) # {}}
         IN [k \in keep |-> Cast(sch[k], v[k], base)]
    [] type[1] = "Array" ->
         [i \in 1..Len(v) |->
            Cast(<<"Nested", type[2]>>, v[i], base) @@ ("_id" :> base + i)]

ArrayPaths(e) == {k \in DOMAIN SchemaOf(e) : SchemaOf(e)[k][1] = "Array"}

\* Number of ObjectIds that building a document from this body consumes.
IdsUsed(e, body) ==
  LET picked == Pick(e, body)
      F[k \in ArrayPaths(e)] == IF k \in DOMAIN picked THEN Len(picked[k]) ELSE 0
      ks == ArrayPaths(e)
  IN 1 + (IF ks = {} THEN 0 ELSE F[CHOOSE k \in ks : TRUE])

\* new Model(picked): the document with _id = id.
NewDoc(e, body, id) ==
  LET picked == Pick(e, body)
      cast == Cast(<<"Nested", SchemaOf(e)>>, picked, id)
      defaults == [k \in ArrayPaths(e) \ DOMAIN picked |-> <<>>]
  IN cast @@ defaults @@ ("_id" :> id) @@ ("__v" :> 0)

\* save() validates first: a value that could not be cast rejects the save.
Valid(e, body) == Castable(<<"Nested", SchemaOf(e)>>, Pick(e, body))

(***************************************************************************)
(* Request bodies.                                                         *)
(***************************************************************************)
item1 == [name |-> Str("tomato"), quantity |-> Num("2"), totalCost |-> Num("40")]

OrderBodies ==
  { EmptyObj,
    [name |-> Str("A"), email |-> Str("a@x.com"), phone |-> Str("123"),
     address |-> [city |-> Str("X")], vegetables |-> [tomatoQty |-> Num("2")],
     totalCost |-> Num("40")],
    [name |-> Str("B"), address |-> EmptyObj, role |-> Str("admin")],
    [name |-> Num("7"), totalCost |-> Str("40"),
     address |-> [city |-> Str("X"), zip |-> Str("1")]],
    [totalCost |-> Str("abc")] }

CartBodies ==
  { EmptyObj,
    [items |-> <<item1>>, totalCartCost |-> Num("40")],
    [totalCartCost |-> Num("7"), coupon |-> Str("free")] }

CheckoutBodies ==
  { EmptyObj,
    [customer |-> [name |-> Str("A"), address |-> [city |-> Str("X")]],
     cart |-> <<item1>>, cartTotal |-> Num("40")] }

BodiesOf(e) ==
  CASE e = "Order" -> OrderBodies
    [] e = "Cart" -> CartBodies
    [] e = "Checkout" -> CheckoutBodies


(***************************************************************************)
(* Requests.  A path with an :id parameter carries the identifier apart    *)
(* from the path: wf says whether it casts to an ObjectId, n is its value. *)
(***************************************************************************)
NoId == [wf |-> FALSE, n |-> 0]
BadId == [wf |-> FALSE, n |-> 0]
WfId(n) == [wf |-> TRUE, n |-> n]

CreatePath(e) ==
  CASE e = "Order" -> "/order"
    [] e = "Cart" -> "/cart"
    [] e = "Checkout" -> "/checkout"

ReadPath(e) ==
  CASE e = "Order" -> "/order/:id"
    [] e = "Cart" -> "/cart/:id"
    [] e = "Checkout" -> "/checkout/:id"

\* Files under public/: the frontend, whose paths are not API paths.
PublicFiles == {"/index.html"}

Req(m, p, i, b, ok) == [method |-> m, path |-> p, id |-> i, body |-> b, bodyOk |-> ok]

\* Requests without a body and without an :id parameter.  GET requests
\* carry no body, so body parsing has nothing to reject in them.
PlainRequests ==
  {Req("GET", p, NoId, EmptyObj, TRUE) : p \in {"/health", "/index.html", "/order"}}

\* POSTs to the create path of e with a JSON-object body.
CreateRequests(e) == {Req("POST", CreatePath(e), NoId, b, TRUE) : b \in BodiesOf(e)}

\* A POST whose body is not JSON.
MalformedRequests == {Req("POST", "/order", NoId, EmptyObj, FALSE)}

\* GETs of the read path of e: a malformed id, the id 0 that is never
\* handed out, and the ids in `known`.
ReadRequests(e, known) ==
  {Req("GET", ReadPath(e), i, EmptyObj, TRUE) :
     i \in {BadId, WfId(0)} \cup {WfId(n) : n \in known}}

(***************************************************************************)
(* MIDDLEWARE and routing (src/app.js 20-30, 129-192).  Express runs the   *)
(* layers in registration order; Pipeline gives the layer that answers a   *)
(* request and the layers the request went through before it.              *)
(***************************************************************************)
RouteOf(req) ==
  IF req.method = "GET" /\ req.path = "/health" THEN "GET /health"
  ELSE IF \E e \in Entities : req.method = "POST" /\ req.path = CreatePath(e)
    THEN "POST " \o req.path
  ELSE IF \E e \in Entities : req.method = "GET" /\ req.path = ReadPath(e)
    THEN "GET " \o req.path
  ELSE "none"

\* Pipeline with express.static registered after the routes.
PipelineStaticLast(req) ==
  IF ~req.bodyOk
    THEN [handler |-> "error", stages |-> <<"json">>]
  ELSE IF RouteOf(req) # "none"
    THEN [handler |-> RouteOf(req), stages |-> <<"json", "urlencoded", "cors", "route">>]
  ELSE IF req.method = "GET" /\ req.path \in PublicFiles
    THEN [handler |-> "static", stages |-> <<"json", "urlencoded", "cors", "static">>]
  ELSE [handler |-> "notfound",
        stages |-> <<"json", "urlencoded", "cors", "static">>]

Pipeline(req) ==
  IF ~req.bodyOk
    THEN [handler |-> "error", stages |-> <<"json">>]
  ELSE IF req.method = "GET" /\ req.path \in PublicFiles
    THEN [handler |-> "static", stages |-> <<"json", "urlencoded", "cors", "static">>]
  ELSE IF RouteOf(req) # "none"
    THEN [handler |-> RouteOf(req),
          stages |-> <<"json", "urlencoded", "cors", "static", "route">>]
  ELSE [handler |-> "notfound",
        stages |-> <<"json", "urlencoded", "cors", "static">>]

(***************************************************************************)
(* State.                                                                  *)
(***************************************************************************)
VARIABLES
  proc,      \* "running" or "exited" (process.exit(1))
  db,        \* the mongoose connection: "connecting", "connected", "lost", "failed"
  connects,  \* number of calls of mongoose.connect so far
  store,     \* store[e]: the documents of the collection of entity e
  nextId,    \* the next ObjectId the driver generates
  log        \* the requests accepted so far, each with its progress and response

vars == <<proc, db, connects, store, nextId, log>>

NoResp == [status |-> 0, body |-> EmptyObj]

\* An accepted request.  by: the layer that took the request; stages: the
\* layers it went through; state: "pending" (awaiting the storage call),
\* "done" (response sent) or "cut" (the process exited first); doc: the
\* document a create built; sent: the number of responses written; probe:
\* for the health route, the connection state it was answered in.
Entry(req, by, st, doc, resp, sent, probe) ==
  [req |-> req, by |-> by, stages |-> Pipeline(req).stages,
   state |-> st, doc |-> doc, resp |-> resp, sent |-> sent, probe |-> probe]

Answer(req, by, status, body) ==
  log' = Append(log, Entry(req, by, "done", EmptyObj,
                           [status |-> status, body |-> body], 1, "-"))

Accepting == proc = "running" /\ Len(log) < MaxReq

\* The _ids of the documents built so far.
KnownIds == {log[i].doc["_id"] : i \in {j \in 1..Len(log) : log[j].doc # EmptyObj}}

Init ==
  /\ proc = "running"
  /\ db = "connecting"
  /\ connects = 1
  /\ store = [e \in Entities |-> {}]
  /\ nextId = 1
  /\ log = <<>>

(***************************************************************************)
(* DATABASE (src/app.js 35-49).                                            *)
(***************************************************************************)
\* await mongoose.connect(...) resolves.
ConnectOk ==
  /\ proc = "running" /\ db = "connecting"
  /\ db' = "connected"
  /\ UNCHANGED <<proc, connects, store, nextId, log>>

\* ConnectFail that tries again instead of exiting.
ConnectRetry ==
  /\ proc = "running" /\ db = "connecting"
  /\ connects' = connects + 1
  /\ UNCHANGED <<proc, db, store, nextId, log>>

\* await mongoose.connect(...) rejects: process.exit(1).  Requests still
\* awaiting a storage call never get their response.
ConnectFail ==
  /\ proc = "running" /\ db = "connecting"
  /\ db' = "failed"
  /\ proc' = "exited"
  /\ log' = [i \in 1..Len(log) |->
               IF log[i].state = "pending" THEN [log[i] EXCEPT !.state = "cut"]
               ELSE log[i]]
  /\ UNCHANGED <<connects, store, nextId>>

\* The established connection drops.
ConnectionLost ==
  /\ proc = "running" /\ db = "connected"
  /\ db' = "lost"
  /\ UNCHANGED <<proc, connects, store, nextId, log>>

(***************************************************************************)
(* Requests answered without a storage call.                               *)
(***************************************************************************)
\* Health as a readiness check: 503 unless the store is connected.
HealthReadiness ==
  \E req \in PlainRequests :
    /\ Accepting /\ Pipeline(req).handler = "GET /health"
    /\ log' = Append(log, Entry(req, "GET /health", "done", EmptyObj,
                [status |-> IF db = "connected" THEN 200 ELSE 503,
                 body |-> [status |-> "OK", service |-> "vegetable-app"]], 1, db))
    /\ UNCHANGED <<proc, db, connects, store, nextId>>

\* app.get('/health')
Health ==
  \E req \in PlainRequests :
    /\ Accepting /\ Pipeline(req).handler = "GET /health"
    /\ log' = Append(log, Entry(req, "GET /health", "done", EmptyObj,
                [status |-> 200,
                 body |-> [status |-> "OK", service |-> "vegetable-app"]], 1, db))
    /\ UNCHANGED <<proc, db, connects, store, nextId>>

\* bodyParser.json() rejects the body: Express's error handler answers 400.
BodyParserError ==
  \E req \in MalformedRequests :
    /\ Accepting /\ Pipeline(req).handler = "error"
    /\ Answer(req, "error", 400, [error |-> "parse"])
    /\ UNCHANGED <<proc, db, connects, store, nextId>>

\* express.static('public') finds the file.
Static ==
  \E req \in PlainRequests :
    /\ Accepting /\ Pipeline(req).handler = "static"
    /\ Answer(req, "static", 200, [file |-> req.path])
    /\ UNCHANGED <<proc, db, connects, store, nextId>>

\* No layer answered: Express's final handler answers 404.
Unmatched ==
  \E req \in PlainRequests :
    /\ Accepting /\ Pipeline(req).handler = "notfound"
    /\ Answer(req, "notfound", 404, [error |-> "Cannot " \o req.method \o " " \o req.path])
    /\ UNCHANGED <<proc, db, connects, store, nextId>>
(***************************************************************************)
(* ROUTES (src/app.js 129-192).  The three create handlers and the three   *)
(* read handlers differ only in the model, the messages and the id key.    *)
(***************************************************************************)
CreatedMessage(e) ==
  CASE e = "Order" -> "Order placed successfully!"
    [] e = "Cart" -> "Cart data saved successfully!"
    [] e = "Checkout" -> "Checkout successful!"

NotFoundMessage(e) ==
  CASE e = "Order" -> "Order not found"
    [] e = "Cart" -> "Cart not found"
    [] e = "Checkout" -> "Checkout not found"

\* res.status(201).json({ message, orderId | cartId | checkoutId })
CreatedBody(e, id) ==
  CASE e = "Order" -> [message |-> CreatedMessage(e), orderId |-> id]
    [] e = "Cart" -> [message |-> CreatedMessage(e), cartId |-> id]
    [] e = "Checkout" -> [message |-> CreatedMessage(e), checkoutId |-> id]

\* res.status(500).json({ error: err.message })
ErrorBody(text) == [error |-> text]

EntityOf(req) == CHOOSE e \in Entities : req.path \in {CreatePath(e), ReadPath(e)}

\* findById that looks the id up in every collection.
findByIdAnywhere(e, n) == {d \in UNION {store[f] : f \in Entities} : d["_id"] = n}

\* Model.findById(id): the document of the collection with that _id, if any.
findById(e, n) == {d \in store[e] : d["_id"] = n}

\* Create where every document gets the same identifier.
CreateSameId(e) ==
  \E req \in CreateRequests(e) :
    /\ Accepting /\ Pipeline(req).handler = "POST " \o CreatePath(e)
    /\ nextId' = nextId
    /\ IF Valid(e, req.body)
         THEN log' = Append(log, Entry(req, "POST " \o CreatePath(e), "pending",
                                       NewDoc(e, req.body, nextId), NoResp, 0, "-"))
         ELSE Answer(req, "POST " \o CreatePath(e), 500, ErrorBody("validation"))
    /\ UNCHANGED <<proc, db, connects, store>>

\* The create handler up to `await newDoc.save()`: the document is built
\* (its ObjectIds generated) and validated; a cast error rejects the save
\* before anything is sent to the store.
Create(e) ==
  \E req \in CreateRequests(e) :
    /\ Accepting /\ Pipeline(req).handler = "POST " \o CreatePath(e)
    /\ nextId' = nextId + IdsUsed(e, req.body)
    /\ IF Valid(e, req.body)
         THEN log' = Append(log, Entry(req, "POST " \o CreatePath(e), "pending",
                                       NewDoc(e, req.body, nextId), NoResp, 0, "-"))
         ELSE Answer(req, "POST " \o CreatePath(e), 500, ErrorBody("validation"))
    /\ UNCHANGED <<proc, db, connects, store>>

\* SaveOk that replaces the collection by the saved document.
SaveOkReplace(rid) ==
  /\ proc = "running" /\ db = "connected"
  /\ rid \in 1..Len(log)
  /\ log[rid].state = "pending" /\ log[rid].req.method = "POST"
  /\ LET e == EntityOf(log[rid].req)
         savedDoc == log[rid].doc
     IN /\ store' = [store EXCEPT ![e] = {savedDoc}]
        /\ log' = [log EXCEPT ![rid].state = "done",
                              ![rid].resp = [status |-> 201,
                                             body |-> CreatedBody(e, savedDoc["_id"])],
                              ![rid].sent = @ + 1]
  /\ UNCHANGED <<proc, db, connects, nextId>>

\* save() resolves: the document is in the collection, 201 is sent.
SaveOk(rid) ==
  /\ proc = "running" /\ db = "connected"
  /\ rid \in 1..Len(log)
  /\ log[rid].state = "pending" /\ log[rid].req.method = "POST"
  /\ LET e == EntityOf(log[rid].req)
         savedDoc == log[rid].doc
     IN /\ store' = [store EXCEPT ![e] = @ \cup {savedDoc}]
        /\ log' = [log EXCEPT ![rid].state = "done",
                              ![rid].resp = [status |-> 201,
                                             body |-> CreatedBody(e, savedDoc["_id"])],
                              ![rid].sent = @ + 1]
  /\ UNCHANGED <<proc, db, connects, nextId>>

\* SaveFail where the document was written although the save is reported
\* as failed.
SaveFailAfterWrite(rid) ==
  /\ proc = "running" /\ db \in {"connecting", "lost"}
  /\ rid \in 1..Len(log)
  /\ log[rid].state = "pending" /\ log[rid].req.method = "POST"
  /\ store' = [store EXCEPT ![EntityOf(log[rid].req)] = @ \cup {log[rid].doc}]
  /\ log' = [log EXCEPT ![rid].state = "done",
                        ![rid].resp = [status |-> 500, body |-> ErrorBody("storage")],
                        ![rid].sent = @ + 1]
  /\ UNCHANGED <<proc, db, connects, nextId>>

\* save() rejects (no connection within the driver's timeout): 500 is sent.
SaveFail(rid) ==
  /\ proc = "running" /\ db \in {"connecting", "lost"}
  /\ rid \in 1..Len(log)
  /\ log[rid].state = "pending" /\ log[rid].req.method = "POST"
  /\ log' = [log EXCEPT ![rid].state = "done",
                        ![rid].resp = [status |-> 500, body |-> ErrorBody("storage")],
                        ![rid].sent = @ + 1]
  /\ UNCHANGED <<proc, db, connects, store, nextId>>

\* Read where the rejection of a malformed id is not caught: no response.
ReadUncaught(e) ==
  \E req \in ReadRequests(e, KnownIds) :
    /\ Accepting /\ Pipeline(req).handler = "GET " \o ReadPath(e)
    /\ log' = Append(log, Entry(req, "GET " \o ReadPath(e), "pending",
                                EmptyObj, NoResp, 0, "-"))
    /\ UNCHANGED <<proc, db, connects, store, nextId>>

\* The read handler up to `await Model.findById(req.params.id)`: an id that
\* does not cast to an ObjectId rejects the query at once.
Read(e) ==
  \E req \in ReadRequests(e, KnownIds) :
    /\ Accepting /\ Pipeline(req).handler = "GET " \o ReadPath(e)
    /\ IF req.id.wf
         THEN log' = Append(log, Entry(req, "GET " \o ReadPath(e), "pending",
                                       EmptyObj, NoResp, 0, "-"))
         ELSE Answer(req, "GET " \o ReadPath(e), 500, ErrorBody("cast"))
    /\ UNCHANGED <<proc, db, connects, store, nextId>>

\* FindOk without the check for null: 200 whatever findById gave.
FindOkNoNullCheck(rid) ==
  /\ proc = "running" /\ db = "connected"
  /\ rid \in 1..Len(log)
  /\ log[rid].state = "pending" /\ log[rid].req.method = "GET"
  /\ LET found == findById(EntityOf(log[rid].req), log[rid].req.id.n)
         resp == [status |-> 200,
                  body |-> IF found # {} THEN CHOOSE d \in found : TRUE ELSE EmptyObj]
     IN log' = [log EXCEPT ![rid].state = "done", ![rid].resp = resp,
                           ![rid].sent = @ + 1]
  /\ UNCHANGED <<proc, db, connects, store, nextId>>

\* findById resolves: 200 with the document, or 404 when there is none.
FindOk(rid) ==
  /\ proc = "running" /\ db = "connected"
  /\ rid \in 1..Len(log)
  /\ log[rid].state = "pending" /\ log[rid].req.method = "GET"
  /\ LET e == EntityOf(log[rid].req)
         found == findById(e, log[rid].req.id.n)
         resp == IF found # {}
                   THEN [status |-> 200, body |-> CHOOSE d \in found : TRUE]
                   ELSE [status |-> 404, body |-> [message |-> NotFoundMessage(e)]]
     IN log' = [log EXCEPT ![rid].state = "done", ![rid].resp = resp,
                           ![rid].sent = @ + 1]
  /\ UNCHANGED <<proc, db, connects, store, nextId>>

\* findById rejects: 500 is sent.
FindFail(rid) ==
  /\ proc = "running" /\ db \in {"connecting", "lost"}
  /\ rid \in 1..Len(log)
  /\ log[rid].state = "pending" /\ log[rid].req.method = "GET"
  /\ log' = [log EXCEPT ![rid].state = "done",
                        ![rid].resp = [status |-> 500, body |-> ErrorBody("storage")],
                        ![rid].sent = @ + 1]
  /\ UNCHANGED <<proc, db, connects, store, nextId>>

PostOrder == Create("Order")
GetOrder == Read("Order")
PostCart == Create("Cart")
GetCart == Read("Cart")
PostCheckout == Create("Checkout")
GetCheckout == Read("Checkout")

Next ==
  \/ ConnectOk
  \/ ConnectFail
  \/ ConnectionLost
  \/ Health
  \/ BodyParserError
  \/ Static
  \/ Unmatched
  \/ PostOrder
  \/ GetOrder
  \/ PostCart
  \/ GetCart
  \/ PostCheckout
  \/ GetCheckout
  \/ \E rid \in 1..MaxReq : SaveOk(rid)
  \/ \E rid \in 1..MaxReq : SaveFail(rid)
  \/ \E rid \in 1..MaxReq : FindOk(rid)
  \/ \E rid \in 1..MaxReq : FindFail(rid)

Spec == Init /\ [][Next]_vars

(***************************************************************************)
(* Vocabulary of the properties.                                           *)
(***************************************************************************)
Idx == 1..Len(log)

IsCreateReq(r, e) == r.method = "POST" /\ r.path = CreatePath(e) /\ r.bodyOk
IsReadReq(r, e) == r.method = "GET" /\ r.path = ReadPath(e)

\* Entry i is a create of e that was answered 201.
Created(i, e) ==
  /\ IsCreateReq(log[i].req, e)
  /\ log[i].state = "done" /\ log[i].resp.status = 201

\* The identifier a 201 response carries.
ReturnedId(i, e) ==
  CASE e = "Order" -> log[i].resp.body.orderId
    [] e = "Cart" -> log[i].resp.body.cartId
    [] e = "Checkout" -> log[i].resp.body.checkoutId

\* A payload is valid when every field it has is declared by the schema
\* with the type the payload gives it.
RECURSIVE Conforms(_, _)
Conforms(type, v) ==
  CASE type[1] = "String" -> v[1] = "str"
    [] type[1] = "Number" -> v[1] = "num"
    [] type[1] = "Nested" ->
         /\ DOMAIN v \subseteq DOMAIN type[2]
         /\ \A k \in DOMAIN v : Conforms(type[2][k], v[k])
    [] type[1] = "Array" ->
         \A i \in 1..Len(v) : Conforms(<<"Nested", type[2]>>, v[i])

\* The input restricted to the allow-list of e.
Restricted(e, body) == [k \in (DOMAIN body) \cap AllowList(e) |-> body[k]]

ValidPayload(e, body) == Conforms(<<"Nested", SchemaOf(e)>>, Restricted(e, body))

\* Entry j is a read of e that is answered in this step, after entry i, a
\* create of e, was answered 201 with the identifier j asks for.
ReadAfterCreate(i, j, e) ==
  /\ i \in Idx /\ j \in Idx
  /\ Created(i, e)
  /\ IsReadReq(log[j].req, e)
  /\ log[j].req.id = WfId(ReturnedId(i, e))
  /\ log[j].state = "pending" /\ log'[j].state = "done"

Metadata == {"_id", "__v"}

(***************************************************************************)
(* C1                                                                      *)
(***************************************************************************)
\* The record has exactly the allow-list fields of the input, with the
\* values of the input (the identifier and version key aside).
FieldsEqual(e, body, rec) ==
  /\ (DOMAIN rec) \ Metadata \subseteq AllowList(e)
  /\ \A k \in AllowList(e) :
       IF k \in DOMAIN body THEN k \in DOMAIN rec /\ rec[k] = body[k]
       ELSE k \notin DOMAIN rec

\* C1 as stated: for every valid payload, a GET of the identifier a 201
\* returned answers 200 with a record whose fields equal the input
\* restricted to the allow-list, and with no other top-level input field.
C1_RoundTripAsStated ==
  [][\A i, j \in 1..MaxReq : \A e \in Entities :
       (ReadAfterCreate(i, j, e) /\ ValidPayload(e, log[i].req.body))
         => /\ log'[j].resp.status = 200
            /\ FieldsEqual(e, log[i].req.body, log'[j].resp.body)]_vars

\* A nested record without its empty nested records.
RECURSIVE Pruned(_, _)
Pruned(type, v) ==
  IF type[1] # "Nested" THEN v
  ELSE LET sch == type[2]
           keep == {k \in DOMAIN v :
                      sch[k][1] = "Nested" => DOMAIN Pruned(sch[k], v[k]) # {}}
       IN [k \in keep |-> Pruned(sch[k], v[k])]

WithoutId(elem) == [f \in (DOMAIN elem) \ {"_id"} |-> elem[f]]

\* What the stored record of a valid payload looks like.
StoredAs(e, body, rec) ==
  /\ (DOMAIN rec) \ Metadata \subseteq AllowList(e)
  /\ Metadata \subseteq DOMAIN rec
  /\ \A k \in AllowList(e) :
       LET t == SchemaOf(e)[k] IN
       CASE t[1] \in {"String", "Number"} ->
              /\ k \in DOMAIN rec <=> k \in DOMAIN body
              /\ k \in DOMAIN body => rec[k] = body[k]
         [] t[1] = "Nested" ->
              LET want == IF k \in DOMAIN body THEN Pruned(t, body[k]) ELSE EmptyObj
              IN IF DOMAIN want = {} THEN k \notin DOMAIN rec
                 ELSE k \in DOMAIN rec /\ rec[k] = want
         [] t[1] = "Array" ->
              LET want == IF k \in DOMAIN body THEN body[k] ELSE <<>>
              IN /\ k \in DOMAIN rec
                 /\ Len(rec[k]) = Len(want)
                 /\ \A n \in 1..Len(want) :
                      /\ "_id" \in DOMAIN rec[k][n]
                      /\ rec[k][n]["_id"] # rec["_id"]
                      /\ WithoutId(rec[k][n]) = Pruned(<<"Nested", t[2]>>, want[n])

\* C1 amended: for every valid payload, a GET of the identifier a 201
\* returned answers, when the read does not fail, 200 with a record that
\* carries that identifier and a version key, every scalar allow-list field
\* of the input as submitted, every nested-record field without its empty
\* nested records (absent when nothing is left), every array field as the
\* sequence submitted with an identifier added to each element (the empty
\* sequence when the input has none), and no other top-level input field;
\* when the read fails it answers 500 with an error field.
C1_RoundTrip ==
  [][\A i, j \in 1..MaxReq : \A e \in Entities :
       (ReadAfterCreate(i, j, e) /\ ValidPayload(e, log[i].req.body))
         => IF db = "connected"
              THEN /\ log'[j].resp.status = 200
                   /\ log'[j].resp.body["_id"] = ReturnedId(i, e)
                   /\ StoredAs(e, log[i].req.body, log'[j].resp.body)
              ELSE /\ log'[j].resp.status = 500
                   /\ DOMAIN log'[j].resp.body = {"error"}]_vars

\* A cart with an item and an order with an address were created and read
\* back.
C1_Witness ==
  \E i, j \in Idx : \E e \in Entities :
    /\ Created(i, e) /\ ValidPayload(e, log[i].req.body)
    /\ DOMAIN log[i].req.body # {}
    /\ IsReadReq(log[j].req, e) /\ log[j].req.id = WfId(ReturnedId(i, e))
    /\ log[j].state = "done" /\ log[j].resp.status = 200
    /\ e = "Cart" /\ Len(log[j].resp.body.items) = 1

(***************************************************************************)
(* C2                                                                      *)
(***************************************************************************)
\* The creates of e answered 201.
CreatedDocs(e) == {log[i].doc : i \in {j \in Idx : Created(j, e)}}

\* C2: a create request with a JSON-object body is answered 201 or 500 and
\* nothing else; a 201 carries the confirmation message and the identifier
\* under which the record is now stored; a 500 carries an error text and
\* its record is not in the store: the collection of each entity holds
\* exactly the records of the creates answered 201.
C2_CreateResponses ==
  /\ \A e \in Entities : store[e] = CreatedDocs(e)
  /\ \A i \in Idx : \A e \in Entities :
       (IsCreateReq(log[i].req, e) /\ log[i].state = "done") =>
          /\ log[i].resp.status \in {201, 500}
          /\ log[i].resp.status = 201 =>
               /\ log[i].resp.body = CreatedBody(e, log[i].doc["_id"])
               /\ \E d \in store[e] : d["_id"] = ReturnedId(i, e)
          /\ log[i].resp.status = 500 =>
               /\ DOMAIN log[i].resp.body = {"error"}
               /\ log[i].doc \notin store[e]

\* A create with the empty object was answered 201 and another create was
\* answered 500 after its write failed.
C2_Witness ==
  \E i, j \in Idx : \E e, f \in Entities :
    /\ Created(i, e) /\ DOMAIN log[i].req.body = {}
    /\ IsCreateReq(log[j].req, f) /\ log[j].state = "done"
    /\ log[j].resp.status = 500 /\ log[j].doc # EmptyObj

(***************************************************************************)
(* C3                                                                      *)
(***************************************************************************)
\* Entry j is a read of e by a well-formed identifier that matches no
\* record of e, and it is answered in this step.
ReadOfAbsent(j, e) ==
  /\ j \in Idx
  /\ IsReadReq(log[j].req, e) /\ log[j].req.id.wf
  /\ \A d \in store[e] : d["_id"] # log[j].req.id.n
  /\ log[j].state = "pending" /\ log'[j].state = "done"

NotFoundResponse(r, e) ==
  r.status = 404 /\ r.body = [message |-> NotFoundMessage(e)]

\* C3 as stated: a GET by a well-formed identifier that matches no record
\* of the entity is always answered 404 with the entity's message, and the
\* store is unchanged.
C3_AbsentAlways404 ==
  [][\A j \in 1..MaxReq : \A e \in Entities :
       ReadOfAbsent(j, e) =>
         /\ NotFoundResponse(log'[j].resp, e)
         /\ store' = store]_vars

\* C3 amended: a GET by a well-formed identifier that matches no record of
\* the entity is answered 404 with the entity's message when the storage
\* read succeeds and 500 with an error field when the read fails; in both
\* cases the store is unchanged.
C3_Absent404 ==
  [][\A j \in 1..MaxReq : \A e \in Entities :
       ReadOfAbsent(j, e) =>
         /\ IF db = "connected"
              THEN NotFoundResponse(log'[j].resp, e)
              ELSE log'[j].resp.status = 500 /\ DOMAIN log'[j].resp.body = {"error"}
         /\ store' = store]_vars

\* A read by a well-formed identifier was answered 404 while the collection
\* of its entity held a record.
C3_Witness ==
  \E j \in Idx : \E e \in Entities :
    /\ IsReadReq(log[j].req, e) /\ log[j].req.id.wf
    /\ log[j].state = "done" /\ NotFoundResponse(log[j].resp, e)
    /\ store[e] # {}

(***************************************************************************)
(* C4                                                                      *)
(***************************************************************************)
MalformedRead(r) == \E e \in Entities : IsReadReq(r, e) /\ ~r.id.wf

\* C4: a GET with a malformed identifier is answered at once, exactly once,
\* 500 with an error field; the step that answers it leaves the process
\* running and the store and the connection as they were.
C4_Malformed500 ==
  /\ [](\A i \in Idx : MalformedRead(log[i].req) =>
          /\ log[i].state = "done" /\ log[i].sent = 1
          /\ log[i].resp.status = 500
          /\ DOMAIN log[i].resp.body = {"error"})
  /\ [][(Len(log') = Len(log) + 1 /\ MalformedRead(log'[Len(log')].req)) =>
          /\ proc' = "running"
          /\ UNCHANGED <<db, connects, store, nextId>>]_vars

\* A GET with a malformed identifier was answered, and a request accepted
\* after it was served too.
C4_Witness ==
  \E i, j \in Idx :
    /\ i < j
    /\ MalformedRead(log[i].req) /\ log[i].state = "done"
    /\ log[j].state = "done" /\ log[j].resp.status \in {200, 201}
    /\ proc = "running"

(***************************************************************************)
(* C5                                                                      *)
(***************************************************************************)
IsHealthReq(r) == r.method = "GET" /\ r.path = "/health"

\* C5: GET /health is answered at once, exactly once, 200 with the fixed
\* payload, whatever the state of the storage connection, and the step
\* that answers it changes nothing but the log of requests.
C5_HealthAlways200 ==
  /\ [](\A i \in Idx : IsHealthReq(log[i].req) =>
          /\ log[i].state = "done" /\ log[i].sent = 1
          /\ log[i].resp = [status |-> 200,
                            body |-> [status |-> "OK", service |-> "vegetable-app"]])
  /\ [][(Len(log') = Len(log) + 1 /\ IsHealthReq(log'[Len(log')].req)) =>
          UNCHANGED <<proc, db, connects, store, nextId>>]_vars

\* The probe was answered 200 both before the connection was established
\* and after it was lost.
C5_Witness ==
  \E i, j \in Idx :
    /\ IsHealthReq(log[i].req) /\ log[i].probe = "connecting"
    /\ IsHealthReq(log[j].req) /\ log[j].probe = "lost"
    /\ log[i].resp.status = 200 /\ log[j].resp.status = 200

(***************************************************************************)
(* C6                                                                      *)
(***************************************************************************)
\* Entry j is a read of e by the identifier of the stored record d, and it
\* is answered in this step.
ReadOfStored(j, e, d) ==
  /\ j \in Idx
  /\ IsReadReq(log[j].req, e) /\ log[j].req.id = WfId(d["_id"])
  /\ log[j].state = "pending" /\ log'[j].state = "done"

Built(i) == log[i].doc # EmptyObj

C8_ConnectOnce ==
  /\ [](connects = 1)
  /\ [](proc = "exited" <=> db = "failed")
  /\ [][proc = "exited" => UNCHANGED vars]_vars
  /\ [][db' = "connecting" => db = "connecting"]_vars
  /\ [](\A i \in Idx :
          /\ log[i].state \in {"pending", "done", "cut"}
          /\ log[i].sent = (IF log[i].state = "done" THEN 1 ELSE 0)
          /\ log[i].state = "cut" => proc = "exited"
          /\ log[i].state = "pending" =>
               /\ proc = "running"
               /\ ENABLED (SaveOk(i) \/ SaveFail(i) \/ FindOk(i) \/ FindFail(i)))

\* The connection attempt failed and the process exited, cutting off one
\* request and having answered another.
C8_Witness ==
  /\ proc = "exited"
  /\ \E i, j \in Idx : log[i].state = "cut" /\ log[j].state = "done"

(***************************************************************************)
(* C9                                                                      *)
(***************************************************************************)
ApiPaths ==
  {"/health"} \cup {CreatePath(e) : e \in Entities} \cup {ReadPath(e) : e \in Entities}

\* The route registered for a method and a path, "none" when there is none.
RouteFor(method, path) ==
  IF method = "GET" /\ path = "/health" THEN "GET /health"
  ELSE IF method = "POST" /\ path \in {CreatePath(e) : e \in Entities}
    THEN "POST " \o path
  ELSE IF method = "GET" /\ path \in {ReadPath(e) : e \in Entities}
    THEN "GET " \o path
  ELSE "none"

RouteNames ==
  {"GET /health"} \cup {"POST " \o CreatePath(e) : e \in Entities}
                  \cup {"GET " \o ReadPath(e) : e \in Entities}

\* s is an initial part of t.
IsPrefix(s, t) == Len(s) <= Len(t) /\ \A n \in 1..Len(s) : s[n] = t[n]

ReadOfForeign(j, e, d) ==
  /\ j \in Idx
  /\ IsReadReq(log[j].req, e) /\ log[j].req.id = WfId(d["_id"])
  /\ \E f \in Entities \ {e} : d \in store[f]
  /\ log[j].state = "pending" /\ log'[j].state = "done"

AllDocs == UNION {store[f] : f \in Entities}

\* A collection changes only in the step that answers a create of its own
\* entity, and no step changes two collections.
CollectionsFramed ==
  /\ \A e \in Entities :
       store'[e] # store[e] =>
         /\ \E i \in Idx : IsCreateReq(log[i].req, e) /\ log[i].state = "pending"
                           /\ log'[i].state = "done"
         /\ \A f \in Entities \ {e} : store'[f] = store[f]
  /\ (\E j \in Idx : \E e \in Entities :
        IsReadReq(log[j].req, e) /\ log[j].state # log'[j].state /\ proc' = "running")
       => store' = store
  /\ (Len(log') = Len(log) + 1 /\ log'[Len(log')].req.method = "GET") => store' = store

\* C10 as stated: a create or read on one entity leaves the collections of
\* the other two unchanged, every GET leaves all three unchanged, and a
\* GET on one entity with the identifier of a record of another entity is
\* answered 404.
C10_ForeignIdAlways404 ==
  [][/\ CollectionsFramed
     /\ \A j \in 1..MaxReq : \A e \in Entities : \A d \in AllDocs :
          ReadOfForeign(j, e, d) => NotFoundResponse(log'[j].resp, e)]_vars

\* C10 amended: a create or read on one entity leaves the collections of
\* the other two unchanged, every GET leaves all three unchanged, and a
\* GET on one entity with the identifier of a record of another entity is
\* answered 404 when the storage read succeeds and 500 when it fails,
\* never with that record.
C10_EntityIsolation ==
  [][/\ CollectionsFramed
     /\ \A j \in 1..MaxReq : \A e \in Entities : \A d \in AllDocs :
          ReadOfForeign(j, e, d) =>
            /\ log'[j].resp.body # d
            /\ IF db = "connected"
                 THEN NotFoundResponse(log'[j].resp, e)
                 ELSE log'[j].resp.status = 500]_vars

\* An order is stored and a GET of a cart by the order's identifier was
\* answered 404.
C10_Witness ==
  \E i, j \in Idx :
    /\ Created(i, "Order")
    /\ IsReadReq(log[j].req, "Cart") /\ log[j].req.id = WfId(ReturnedId(i, "Order"))
    /\ log[j].state = "done" /\ NotFoundResponse(log[j].resp, "Cart")
====
